---- MODULE Spec2Model ----
(***************************************************************************)
(* Synthetic multi-digit dataset built from single-digit glyphs            *)
(* (unchanged_mnist.py): concat_images / concat_labels, the generator      *)
(* generate_digit_sequences, and the train / test / validation split.      *)
(*                                                                         *)
(* Arrays are 0-indexed functions, as in the source.  The source is        *)
(* Python 2: "/" on integers is floor division, which is \div here.        *)
(***************************************************************************)
EXTENDS Integers, Sequences, FiniteSets, TLC

-----------------------------------------------------------------------------
(* Program constants (notebook cell In[6]) *)

CanvasSide == 64        \* height, width = 64, 64
max_digits == 5
new_height == 12
new_width == 12
SourceSide == 28        \* X.reshape(len(X), 28, 28)
ScalePercent == 45      \* scale = 0.45
num_images == 5         \* default argument of concat_labels
Filler == 10            \* filler label for a missing digit
TestPercent == 25       \* train_test_split default test share
ValPercent == 20        \* int(len(X_test)*0.20)

(* Bounds of the model *)

MaxShrink == 1          \* canvas sides CanvasSide-MaxShrink .. CanvasSide
MaxNum == 6             \* most glyphs handed to concat_images on its own
MaxCorpus == 5          \* largest corpus
MaxN == 10              \* largest requested dataset size n
MaxSeed == 7            \* seeds 0 .. MaxSeed of the random module
MaxSplit == 40          \* largest dataset handed to the split
MaxRot == 2             \* starting points of a random permutation

-----------------------------------------------------------------------------
VARIABLES
    height, width,      \* canvas size (module globals of the source)
    \* --- concat_images / concat_labels called on their own
    cpc,                \* concat_images: "idle" | "call" | "returned" | "raised"
    lpc,                \* concat_labels: "idle" | "call" | "returned"
    c_images,           \* the images argument: glyph ids, 0-indexed
    c_labels,           \* the labels argument, 0-indexed
    new_image,          \* value returned by concat_images
    new_label,          \* value returned by concat_labels
    \* --- generate_digit_sequences
    data, labels,       \* the corpus: glyph ids and their digit labels
    n,                  \* requested dataset size
    pc,                 \* "call" | "loop" | "returned" | "raised"
    i, j,               \* loop variables of generate_digit_sequences
    X, y,               \* the output arrays
    rng,                \* state of the random module's generator
    drawn,              \* j |-> the selection drawn for position j
    \* --- shuffle and train / test / validation split
    spc,                \* "shuffle" | "split" | "choose" | "val" | "delete" | "done"
    X_new, y_new,
    X_train, y_train, X_test, y_test, X_val, y_val,
    idx

composeVars == <<cpc, lpc, c_images, c_labels, new_image, new_label>>
genVars == <<data, labels, n, pc, i, j, X, y, rng, drawn>>
splitVars == <<spc, X_new, y_new, X_train, y_train, X_test, y_test, X_val, y_val, idx>>
vars == <<height, width, composeVars, genVars, splitVars>>

-----------------------------------------------------------------------------
(* 0-indexed arrays *)

len(a) == Cardinality(DOMAIN a)
Arr(k) == 0 .. (k - 1)
Empty == [k \in {} |-> 0]

\* a[selection]: numpy indexing of an array by a list of indices
Take(a, selection) == [k \in DOMAIN selection |-> a[selection[k]]]

\* one bound of a Python slice over an axis of length N
SliceBound(b, N) ==
    LET w == IF b < 0 THEN b + N ELSE b
    IN  IF w < 0 THEN 0 ELSE IF w > N THEN N ELSE w

\* the indices selected by a:b over an axis of length N
Slice(a, b, N) == SliceBound(a, N) .. (SliceBound(b, N) - 1)

-----------------------------------------------------------------------------
(* concat_images *)

\* side of imresize(image, 0.45) of a 28x28 image: int(28 * 0.45)
ScaledSide == (SourceSide * ScalePercent) \div 100

\* The pixel (r, c) of glyph g after scaling.  Glyph content is opaque, so a
\* scaled pixel is named by a positive number unique to (g, r, c); 0 is the
\* background value of np.zeros.
Pixel(g, r, c) == 1 + c + ScaledSide * (r + ScaledSide * g)

imresize(g) == [r \in Arr(ScaledSide) |-> [c \in Arr(ScaledSide) |-> Pixel(g, r, c)]]

zeros2(h, w) == [r \in Arr(h) |-> [c \in Arr(w) |-> 0]]

y_pad == (height - new_height) \div 2
x_pad(num_digits) == (width - num_digits * new_width) \div 2
\* variant: the glyph width is left out of the starting position
x_offset_nostride(num_digits, k) == x_pad(num_digits) + k
x_offset(num_digits, k) == x_pad(num_digits) + (k * new_width)

\* the rows and columns addressed by the assignment of line 164
RowSlice == Slice(y_pad, height - y_pad, height)
ColSlice(num_digits, k) ==
    Slice(x_offset(num_digits, k), x_offset(num_digits, k) + new_width, width)

\* numpy raises ValueError when the scaled glyph cannot be broadcast into
\* the addressed region
Fits(num_digits, k) ==
    /\ Cardinality(RowSlice) = ScaledSide
    /\ Cardinality(ColSlice(num_digits, k)) = ScaledSide

\* new_image[rows, cols] = scaled
Assign(img, rows, cols, scaled) ==
    LET r0 == CHOOSE r \in rows : \A q \in rows : r <= q
        c0 == CHOOSE c \in cols : \A q \in cols : c <= q
    IN  [r \in DOMAIN img |->
            IF r \in rows
            THEN [c \in DOMAIN img[r] |->
                    IF c \in cols THEN scaled[r - r0][c - c0] ELSE img[r][c]]
            ELSE img[r]]

\* the loop of concat_images from iteration k on, img being new_image so far
RECURSIVE PlaceFrom(_, _, _)
PlaceFrom(images, k, img) ==
    IF k >= len(images)
    THEN [raised |-> FALSE, image |-> img]
    ELSE IF ~Fits(len(images), k)
         THEN [raised |-> TRUE, image |-> Empty]
         ELSE PlaceFrom(images, k + 1,
                        Assign(img, RowSlice, ColSlice(len(images), k),
                               imresize(images[k])))

concat_images(images) == PlaceFrom(images, 0, zeros2(height, width))

-----------------------------------------------------------------------------
(* concat_labels *)

\* variant: the else branch is missing, the slot keeps the 0 of np.zeros
concat_labels_nofill(lbls) ==
    [k \in Arr(num_images) |-> IF k < len(lbls) THEN lbls[k] ELSE 0]

concat_labels(lbls) ==
    [k \in Arr(num_images) |-> IF k < len(lbls) THEN lbls[k] ELSE Filler]

-----------------------------------------------------------------------------
(* concat_images and concat_labels called on their own (cells In[11]-In[15]) *)

Sides == (CanvasSide - MaxShrink) .. CanvasSide
SomeDigits == {0, 9}

ConcatImagesReturn ==
    /\ cpc = "call"
    /\ ~concat_images(c_images).raised
    /\ new_image' = concat_images(c_images).image
    /\ cpc' = "returned"
    /\ UNCHANGED <<height, width, lpc, c_images, c_labels, new_label, genVars, splitVars>>

ConcatImagesRaise ==
    /\ cpc = "call"
    /\ concat_images(c_images).raised
    /\ cpc' = "raised"
    /\ UNCHANGED <<height, width, lpc, c_images, c_labels, new_image, new_label,
                   genVars, splitVars>>

ConcatLabelsReturn ==
    /\ lpc = "call"
    /\ new_label' = concat_labels(c_labels)
    /\ lpc' = "returned"
    /\ UNCHANGED <<height, width, cpc, c_images, c_labels, new_image, genVars, splitVars>>

-----------------------------------------------------------------------------
(* generate_digit_sequences *)

zeros3(k, h, w) == [p \in Arr(k) |-> zeros2(h, w)]
zerosLabels(k, w) == [p \in Arr(k) |-> [q \in Arr(w) |-> 0]]

\* random.sample(range(0, L), k) raises ValueError when k > L
CanSample(L, k) == k <= L

\* variant: k independent draws, which may repeat an index
sample_with_replacement(L, k, s) == [m \in Arr(k) |-> (s * (m + 1)) % L]

\* random.sample(range(0, L), k) for k <= L: k distinct indices, decided by
\* the generator state s (a run of k indices around the corpus, ascending
\* or descending)
sample(L, k, s) ==
    [m \in Arr(k) |->
        IF (s \div L) % 2 = 0 THEN ((s % L) + m) % L
                              ELSE ((s % L) + L - m) % L]

\* the generator state after one call
NextRng(s) == (5 * s + 3) % 16

\* number of training examples of each sequence length (line 244)
n_samples == n \div max_digits

\* variant: the groups are counted from i instead of i-1
GroupStart_late(g) == g * n_samples

\* range((i-1)*n_samples, i*n_samples)
GroupStart(g) == (g - 1) * n_samples
GroupStop(g) == g * n_samples

\* np.expand_dims(X, axis=3)
expand_dims(A) ==
    [p \in DOMAIN A |-> [r \in DOMAIN A[p] |-> [c \in DOMAIN A[p][r] |->
        [ch \in {0} |-> A[p][r][c]]]]]

\* lines 240-244
GenCall ==
    /\ pc = "call"
    /\ X' = zeros3(n, height, width)
    /\ y' = zerosLabels(n, max_digits)
    /\ i' = 1
    /\ j' = GroupStart(1)
    /\ pc' = "loop"
    /\ UNCHANGED <<height, width, data, labels, n, rng, drawn, composeVars, splitVars>>

\* variant: the labels are taken from a second draw
GenSample_resample ==
    /\ pc = "loop"
    /\ i <= max_digits
    /\ j < GroupStop(i)
    /\ CanSample(len(data), i)
    /\ LET selection == sample(len(data), i, rng)
           again == sample(len(data), i, NextRng(rng))
           image == concat_images(Take(data, selection))
           label == concat_labels(Take(labels, again))
       IN  /\ ~image.raised
           /\ len(label) = max_digits
           /\ X' = [X EXCEPT ![j] = image.image]
           /\ y' = [y EXCEPT ![j] = label]
           /\ drawn' = [p \in DOMAIN drawn \cup {j} |->
                           IF p = j THEN selection ELSE drawn[p]]
    /\ rng' = NextRng(NextRng(rng))
    /\ j' = j + 1
    /\ UNCHANGED <<height, width, data, labels, n, pc, i, composeVars, splitVars>>

\* lines 253-257, one pass of the inner loop
GenSample ==
    /\ pc = "loop"
    /\ i <= max_digits
    /\ j < GroupStop(i)
    /\ CanSample(len(data), i)
    /\ LET selection == sample(len(data), i, rng)
           image == concat_images(Take(data, selection))
           label == concat_labels(Take(labels, selection))
       IN  /\ ~image.raised
           /\ len(label) = max_digits
           /\ X' = [X EXCEPT ![j] = image.image]
           /\ y' = [y EXCEPT ![j] = label]
           /\ drawn' = [p \in DOMAIN drawn \cup {j} |->
                           IF p = j THEN selection ELSE drawn[p]]
    /\ rng' = NextRng(rng)
    /\ j' = j + 1
    /\ UNCHANGED <<height, width, data, labels, n, pc, i,
                   composeVars, splitVars>>

\* the inner loop body raises: random.sample on too small a corpus, or an
\* assignment whose shapes do not match
GenSampleRaise ==
    /\ pc = "loop"
    /\ i <= max_digits
    /\ j < GroupStop(i)
    /\ \/ ~CanSample(len(data), i)
       \/ /\ CanSample(len(data), i)
          /\ \/ concat_images(Take(data, sample(len(data), i, rng))).raised
             \/ num_images # max_digits
    /\ pc' = "raised"
    /\ UNCHANGED <<height, width, data, labels, n, i, j, X, y, rng, drawn,
                   composeVars, splitVars>>

\* the inner range is exhausted: next sequence length
GenNextLength ==
    /\ pc = "loop"
    /\ i <= max_digits
    /\ j >= GroupStop(i)
    /\ i' = i + 1
    /\ j' = GroupStart(i + 1)
    /\ UNCHANGED <<height, width, data, labels, n, pc, X, y, rng, drawn,
                   composeVars, splitVars>>

\* lines 260-263
GenReturn ==
    /\ pc = "loop"
    /\ i > max_digits
    /\ X' = expand_dims(X)
    /\ pc' = "returned"
    /\ UNCHANGED <<height, width, data, labels, n, i, j, y, rng, drawn,
                   composeVars, splitVars>>

-----------------------------------------------------------------------------
(* Specifications *)

ComposeIdle ==
    /\ cpc = "idle" /\ lpc = "idle"
    /\ c_images = Empty /\ c_labels = Empty
    /\ new_image = Empty /\ new_label = Empty

GenIdle ==
    /\ pc = "idle"
    /\ data = Empty /\ labels = Empty
    /\ n = 0 /\ i = 0 /\ j = 0
    /\ X = Empty /\ y = Empty /\ rng = 0 /\ drawn = Empty

SplitIdle ==
    /\ spc = "idle"
    /\ X_new = Empty /\ y_new = Empty
    /\ X_train = Empty /\ y_train = Empty
    /\ X_test = Empty /\ y_test = Empty
    /\ X_val = Empty /\ y_val = Empty
    /\ idx = Empty

\* the generator, on the canvas of the source
Init ==
    /\ height = CanvasSide /\ width = CanvasSide
    /\ \E L \in 0 .. MaxCorpus, d \in SomeDigits :
          /\ data = [k \in Arr(L) |-> k]
          /\ labels = [k \in Arr(L) |-> (d + k) % 10]
    /\ n \in 0 .. MaxN
    /\ rng \in 0 .. MaxSeed
    /\ pc = "call"
    /\ i = 0 /\ j = 0
    /\ X = Empty /\ y = Empty /\ drawn = Empty
    /\ ComposeIdle /\ SplitIdle

Next == GenCall \/ GenSample \/ GenSampleRaise \/ GenNextLength \/ GenReturn

Spec == Init /\ [][Next]_vars

\* the arguments of a call of concat_images / concat_labels on its own
ComposeCall ==
    /\ \E num \in 0 .. MaxNum :
          /\ c_images = [k \in Arr(num) |-> k]
          /\ c_labels \in [Arr(num) -> SomeDigits]
    /\ cpc = "call" /\ lpc = "call"
    /\ new_image = Empty /\ new_label = Empty
    /\ GenIdle /\ SplitIdle

NextCompose == ConcatImagesReturn \/ ConcatImagesRaise \/ ConcatLabelsReturn

\* concat_images / concat_labels on the canvas of the source
InitCompose ==
    /\ height = CanvasSide /\ width = CanvasSide
    /\ ComposeCall

SpecCompose == InitCompose /\ [][NextCompose]_vars

\* concat_images / concat_labels with the canvas size set to other values
InitCanvas ==
    /\ height \in Sides /\ width \in Sides
    /\ ComposeCall

NextCanvas == ConcatImagesReturn \/ ConcatImagesRaise \/ ConcatLabelsReturn

SpecCanvas == InitCanvas /\ [][NextCanvas]_vars

-----------------------------------------------------------------------------
(* Shuffle and train / test / validation split (cells In[18], In[19]).     *)
(* A sample is named by its position in the generated dataset; X_new holds *)
(* the image of that sample and y_new its label.                           *)

Range(a) == {a[k] : k \in DOMAIN a}
Min(a, b) == IF a < b THEN a ELSE b

\* outcomes of a random permutation of 0 .. N-1: a run around 0 .. N-1 from
\* one of the first MaxRot positions, ascending or descending
permutation(N) ==
    {[k \in Arr(N) |-> (o + k) % N] : o \in Arr(Min(N, MaxRot))}
    \cup {[k \in Arr(N) |-> (o + N - k) % N] : o \in Arr(Min(N, MaxRot))}

\* ceil(0.25 * N), the test share of train_test_split
n_test(N) == (TestPercent * N + 99) \div 100

\* int(T * 0.20)
n_val(T) == (T * ValPercent) \div 100

\* variant: replace=False is left out
Choices_replace(T, v) == [Arr(v) -> Arr(T)]

\* np.random.choice(range(0, T), size=v, replace=False)
Choices(T, v) ==
    {f \in [Arr(v) -> Arr(T)] : \A a, b \in Arr(v) : a # b => f[a] # f[b]}

\* a[lo:hi] of a 0-indexed array, re-indexed from 0
Sub(a, lo, hi) == [k \in Arr(hi - lo) |-> a[lo + k]]

\* np.delete(a, obj, axis=0)
delete(a, obj) ==
    LET kept == {p \in DOMAIN a : p \notin Range(obj)}
    IN  [k \in Arr(Cardinality(kept)) |->
            a[CHOOSE p \in kept : Cardinality({q \in kept : q < p}) = k]]

\* line 302: X_new, y_new = shuffle(X_new, y_new, random_state=0)
Shuffle ==
    /\ spc = "shuffle"
    /\ \E perm \in permutation(len(X_new)) :
          /\ X_new' = Take(X_new, perm)
          /\ y_new' = Take(y_new, perm)
    /\ spc' = "split"
    /\ UNCHANGED <<height, width, X_train, y_train, X_test, y_test, X_val, y_val, idx,
                   composeVars, genVars>>

\* line 318: X_train, X_test, y_train, y_test = train_test_split(X_new, y_new)
TrainTestSplit ==
    /\ spc = "split"
    /\ \E perm \in permutation(len(X_new)) :
          LET t == n_test(len(X_new))
              ind_test == Sub(perm, 0, t)
              ind_train == Sub(perm, t, len(X_new))
          IN  /\ X_train' = Take(X_new, ind_train)
              /\ y_train' = Take(y_new, ind_train)
              /\ X_test' = Take(X_new, ind_test)
              /\ y_test' = Take(y_new, ind_test)
    /\ spc' = "choose"
    /\ UNCHANGED <<height, width, X_new, y_new, X_val, y_val, idx, composeVars, genVars>>

\* line 321
ChooseIdx ==
    /\ spc = "choose"
    /\ idx' \in Choices(len(X_test), n_val(len(X_test)))
    /\ spc' = "val"
    /\ UNCHANGED <<height, width, X_new, y_new, X_train, y_train, X_test, y_test,
                   X_val, y_val, composeVars, genVars>>

\* line 324
BuildVal ==
    /\ spc = "val"
    /\ X_val' = Take(X_test, idx)
    /\ y_val' = Take(y_test, idx)
    /\ spc' = "delete"
    /\ UNCHANGED <<height, width, X_new, y_new, X_train, y_train, X_test, y_test, idx,
                   composeVars, genVars>>

\* lines 327-328
DeleteVal ==
    /\ spc = "delete"
    /\ X_test' = delete(X_test, idx)
    /\ y_test' = delete(y_test, idx)
    /\ spc' = "done"
    /\ UNCHANGED <<height, width, X_new, y_new, X_train, y_train, X_val, y_val, idx,
                   composeVars, genVars>>

InitSplit ==
    /\ height = CanvasSide /\ width = CanvasSide
    /\ \E N \in 1 .. MaxSplit :
          /\ X_new = [k \in Arr(N) |-> k]
          /\ y_new = [k \in Arr(N) |-> k]
    /\ spc = "shuffle"
    /\ X_train = Empty /\ y_train = Empty
    /\ X_test = Empty /\ y_test = Empty
    /\ X_val = Empty /\ y_val = Empty
    /\ idx = Empty
    /\ ComposeIdle /\ GenIdle

NextSplit == Shuffle \/ TrainTestSplit \/ ChooseIdx \/ BuildVal \/ DeleteVal

SpecSplit == InitSplit /\ [][NextSplit]_vars

-----------------------------------------------------------------------------
(* Properties *)

NumGlyphs == len(c_images)

\* number of label slots that do not hold the filler
NonFiller(v) == Cardinality({k \in DOMAIN v : v[k] # 10})

\* C1: for 1 <= num <= max_digits glyphs, concat_images returns a canvas of
\* exactly (height, width) and concat_labels a vector of exactly max_digits
\* slots: the first num are the input labels in order, the others are 10.
C1_ComposeShape ==
    (1 <= NumGlyphs /\ NumGlyphs <= max_digits) =>
        /\ cpc # "raised"
        /\ cpc = "returned" =>
              /\ DOMAIN new_image = 0 .. (height - 1)
              /\ \A r \in DOMAIN new_image : DOMAIN new_image[r] = 0 .. (width - 1)
        /\ lpc = "returned" =>
              /\ DOMAIN new_label = 0 .. (max_digits - 1)
              /\ \A k \in DOMAIN new_label :
                    new_label[k] = IF k < NumGlyphs THEN c_labels[k] ELSE 10

C1_Witness ==
    /\ cpc = "returned" /\ lpc = "returned"
    /\ NumGlyphs = 3
    /\ new_label[0] = 9 /\ new_label[2] = 0 /\ new_label[3] = 10

C3_NoUnwrittenPosition ==
    (pc = "returned" /\ n % max_digits # 0) =>
        \A p \in 0 .. (n - 1) :
            /\ p \in DOMAIN drawn
            /\ 1 <= len(drawn[p]) /\ len(drawn[p]) <= max_digits

\* C4: concat_images and concat_labels fail, returning nothing, whenever the
\* number of glyphs is 0 or exceeds max_digits.
C4_InvalidLengthFails ==
    (NumGlyphs = 0 \/ NumGlyphs > max_digits) =>
        (cpc # "returned" /\ lpc # "returned")

\* C5: generate fails and returns nothing whenever the corpus is empty or
\* smaller than some sequence length in 1 .. max_digits, whatever n is.
C5_SmallCorpusFails ==
    (len(data) < max_digits) => pc # "returned"

\* C6: for 1 <= num <= width \div new_width, glyph k is written to the columns
\* x_pad + k*new_width .. x_pad + (k+1)*new_width - 1, with
\* x_pad = (width - num*new_width) \div 2; the ranges lie inside the canvas,
\* two positions share no column, and no glyph is overwritten by a later one.
C6_Columns ==
    (1 <= NumGlyphs /\ NumGlyphs <= width \div new_width) =>
        LET xp == (width - NumGlyphs * new_width) \div 2
            yp == (height - new_height) \div 2
            cols(k) == (xp + k * new_width) .. (xp + (k + 1) * new_width - 1)
        IN  /\ \A k \in Arr(NumGlyphs) :
                  /\ ColSlice(NumGlyphs, k) = cols(k)
                  /\ cols(k) \subseteq 0 .. (width - 1)
            /\ \A k, m \in Arr(NumGlyphs) : k # m => cols(k) \cap cols(m) = {}
            /\ cpc = "returned" =>
                  \A k \in Arr(NumGlyphs), r \in Arr(new_height), c \in Arr(new_width) :
                      new_image[yp + r][xp + k * new_width + c] = Pixel(c_images[k], r, c)

C6_Witness ==
    /\ cpc = "returned"
    /\ NumGlyphs = width \div new_width
    /\ width # CanvasSide

\* rows of a canvas that hold a pixel of a glyph
GlyphRows(img) == {r \in DOMAIN img : \E c \in DOMAIN img[r] : img[r][c] # 0}
GlyphCols(img) == {c \in Arr(width) : \E r \in DOMAIN img : img[r][c] # 0}

\* C7: for every height >= new_height, even or odd, each glyph is written to
\* the rows y_pad .. y_pad + new_height - 1 with y_pad = (height - new_height)
\* \div 2, top and bottom padding differing by at most 1; a single glyph is
\* also centred horizontally.
C7_RowsCentred ==
    (height >= new_height /\ 1 <= NumGlyphs /\ NumGlyphs <= width \div new_width) =>
        LET yp == (height - new_height) \div 2
            xp == (width - new_width) \div 2
        IN  /\ cpc # "raised"
            /\ cpc = "returned" =>
                  /\ GlyphRows(new_image) = yp .. (yp + new_height - 1)
                  /\ (height - (yp + new_height)) - yp \in {0, 1}
                  /\ NumGlyphs = 1 =>
                        /\ GlyphCols(new_image) = xp .. (xp + new_width - 1)
                        /\ (width - (xp + new_width)) - xp \in {0, 1}

\* the canvas stored at position p (the returned array has one more axis)
Stored(p) ==
    IF pc = "returned"
    THEN [r \in DOMAIN X[p] |-> [c \in DOMAIN X[p][r] |-> X[p][r][c][0]]]
    ELSE X[p]

\* C8: the label vector and the canvas stored at one position are built from
\* the same drawn indices in the same order: as many labels differ from the
\* filler as glyphs were drawn, slot k holds the corpus label of the k-th
\* drawn index, and the canvas is concat_images of the corpus images drawn.
C8_LabelImageConsistent ==
    \A p \in DOMAIN drawn :
        /\ NonFiller(y[p]) = len(drawn[p])
        /\ \A k \in DOMAIN drawn[p] : y[p][k] = labels[drawn[p][k]]
        /\ Stored(p) = concat_images([k \in DOMAIN drawn[p] |-> data[drawn[p][k]]]).image

C8_Witness ==
    /\ pc = "returned"
    /\ DOMAIN drawn = 0 .. 9
    /\ \E p \in DOMAIN drawn : len(drawn[p]) = 3 /\ drawn[p][0] > drawn[p][1]

\* C9: the indices drawn for one sample of sequence length g are g pairwise
\* distinct corpus indices; the same index may appear in several samples.
C9_DistinctWithinSample ==
    \A p \in DOMAIN drawn :
        /\ \E g \in 1 .. max_digits :
              /\ (g - 1) * (n \div max_digits) <= p /\ p < g * (n \div max_digits)
              /\ DOMAIN drawn[p] = 0 .. (g - 1)
        /\ \A k \in DOMAIN drawn[p] : drawn[p][k] \in 0 .. (len(data) - 1)
        /\ \A k, m \in DOMAIN drawn[p] : k # m => drawn[p][k] # drawn[p][m]

C9_Witness ==
    /\ pc = "returned"
    /\ \E p, q \in DOMAIN drawn :
          /\ p # q
          /\ len(drawn[p]) = 2 /\ len(drawn[q]) = 2
          /\ drawn[p][0] = drawn[q][1]

\* C10: after the split and the extraction of the validation set, the
\* training, test and validation sets are pairwise disjoint, hold every
\* sample of the dataset exactly once, and images and labels stay aligned.
C10_Partition ==
    spc = "done" =>
        /\ Range(X_train) \cap Range(X_test) = {}
        /\ Range(X_train) \cap Range(X_val) = {}
        /\ Range(X_test) \cap Range(X_val) = {}
        /\ Range(X_train) \cup Range(X_test) \cup Range(X_val) = Range(X_new)
        /\ len(X_train) + len(X_test) + len(X_val) = len(X_new)
        /\ len(X_val) = ((len(X_val) + len(X_test)) * 20) \div 100
        /\ y_train = X_train /\ y_test = X_test /\ y_val = X_val

C10_Witness ==
    /\ spc = "done"
    /\ len(X_val) = 2
    /\ idx[0] > idx[1]

====
